---- MODULE Spec2Model ----
(***************************************************************************)
(* A model of `header`, a Rust version of head(1): get_args() resolves the *)
(* command line into a Config, run() copies the first lines or bytes of    *)
(* each input to standard output, main() maps a returned error to exit     *)
(* status 1.                                                               *)
(*                                                                         *)
(* Text is a sequence of bytes (0..255).  A line of standard error is a    *)
(* record [prefix, msg, arg]: the file name that eprintln! puts in front   *)
(* (empty when there is none), the fixed text of the displayed error and   *)
(* the string interpolated after it.                                       *)
(***************************************************************************)
EXTENDS Integers, Sequences, FiniteSets, TLC

\* ------------------------------------------------------------------ bounds

\* Longest content of the file `a` (bytes).
MaxLen == 3
\* Largest count given with -n or -c in the runs that read files.
MaxCount == 3
\* Longest FILE list of a command line.
MaxFiles == 3
\* Longest value string of an option in the runs that resolve arguments.
MaxValLen == 2

\* --------------------------------------------------------------- constants

\* "\n": the terminator of println! and the delimiter of read_line.
NL == 10
\* lines: lines.unwrap_or(10), default_value("10").
DefaultLines == 10

\* default_value("10") as the string clap hands to parse_positive_int.
DefaultLinesText == <<49, 48>>
\* The placeholder name "-" (default_value("-"), and open()'s first arm).
Dash == <<45>>
\* Two file names, "a" and "b".
NameA == <<97>>
NameB == <<98>>
FileNames == {NameA, NameB}
\* U+FFFD REPLACEMENT CHARACTER in UTF-8, what from_utf8_lossy substitutes.
Replacement == <<239, 191, 189>>

None == [some |-> FALSE, val |-> 0]
Some(v) == [some |-> TRUE, val |-> v]

Min(x, y) == IF x <= y THEN x ELSE y
Drop(s, n) == SubSeq(s, n + 1, Len(s))
Take(s, n) == SubSeq(s, 1, n)

\* ------------------------------------------------------------------- UTF-8

\* The bytes of the model's inputs form 1- and 2-byte sequences only
\* (ASCII, and lead bytes C2..DF followed by one continuation byte 80..BF).
IsAscii(b) == b < 128
IsLead2(b) == b \in 194..223
IsCont(b) == b \in 128..191

\* std::str::from_utf8(bs).is_ok()
RECURSIVE IsUtf8(_)
IsUtf8(bs) ==
    IF bs = <<>> THEN TRUE
    ELSE IF IsAscii(Head(bs)) THEN IsUtf8(Tail(bs))
    ELSE IF IsLead2(Head(bs)) /\ Len(bs) >= 2 /\ IsCont(bs[2])
         THEN IsUtf8(Drop(bs, 2))
    ELSE FALSE

\* String::from_utf8_lossy(bs), as the bytes print! then writes: a valid
\* sequence is kept, every invalid byte becomes U+FFFD.
RECURSIVE FromUtf8Lossy(_)
FromUtf8Lossy(bs) ==
    IF bs = <<>> THEN <<>>
    ELSE IF IsAscii(Head(bs)) THEN <<Head(bs)>> \o FromUtf8Lossy(Tail(bs))
    ELSE IF IsLead2(Head(bs)) /\ Len(bs) >= 2 /\ IsCont(bs[2])
         THEN <<bs[1], bs[2]>> \o FromUtf8Lossy(Drop(bs, 2))
    ELSE Replacement \o FromUtf8Lossy(Tail(bs))

\* ------------------------------------------------------------------- lines

\* A variant that reads to the end of the input, as read_to_string would.
ReadUntilNewlineToEnd(bs) ==
    bs

\* What one read_line call takes from the bytes still unread: everything up
\* to and including the first "\n", or all of it when there is none.
RECURSIVE ReadUntilNewline(_)
ReadUntilNewline(bs) ==
    IF bs = <<>> THEN <<>>
    ELSE IF Head(bs) = NL THEN <<NL>>
    ELSE <<Head(bs)>> \o ReadUntilNewline(Tail(bs))

\* ----------------------------------------------------------- get_args

IsDigit(c) == c \in 48..57

RECURSIVE DecimalValue(_)
DecimalValue(ds) ==
    IF ds = <<>> THEN 0
    ELSE 10 * DecimalValue(Take(ds, Len(ds) - 1)) + (ds[Len(ds)] - 48)

\* s.parse::<usize>(): an optional "+", then one or more decimal digits.
\* (No digit string of the model comes near usize::MAX.)
ParseUsize(s) ==
    LET ds == IF Len(s) > 1 /\ s[1] = 43 THEN Tail(s) ELSE s
    IN  IF ds # <<>> /\ \A i \in 1..Len(ds) : IsDigit(ds[i])
        THEN Some(DecimalValue(ds))
        ELSE None

\* A variant without the guard `if n > 0`.
parse_positive_int_no_guard(s) ==
    ParseUsize(s)

\* The closure parse_positive_int: Ok(n) if n > 0, else
\* Err("illegal number: {s}").
parse_positive_int(s) ==
    LET r == ParseUsize(s)
    IN  IF r.some /\ r.val > 0 THEN r ELSE None

\* An error is its chain of messages, outermost context first; "{}" displays
\* the outermost one only.
Msg(text, arg) == [msg |-> text, arg |-> arg]
Display(e) == Head(e)
ErrLine(prefix, e) == [prefix |-> prefix, msg |-> Display(e).msg, arg |-> Display(e).arg]

\* The command line as clap's lexer delivers it: option occurrences with
\* their values and positional FILE arguments, in order.  Each option occurs
\* at most once.
Opt(name, val) == [opt |-> name, val |-> val]
ValuesOf(av, name) == SelectSeq(av, LAMBDA x : x.opt = name)
Occurrences(av, name) == Len(ValuesOf(av, name))

\* A variant in which the default value of -n counts as an occurrence.
ConflictsWithDefault(av) ==
    Occurrences(av, "bytes") > 0

\* .conflicts_with("lines"): an error when both were given on the command
\* line; a default value is no occurrence.
Conflicts(av) ==
    Occurrences(av, "bytes") > 0 /\ Occurrences(av, "lines") > 0

ConflictError ==
    <<Msg("The argument '--lines <LINES>' cannot be used with '--bytes <BYTES>'", <<>>)>>

\* matches.value_of(name), with the argument's default_value if it has one.
ValueOf(av, name, default) ==
    IF Occurrences(av, name) > 0 THEN Some(ValuesOf(av, name)[1].val) ELSE default

\* A variant without default_value("-").
FilesOfNoDefault(av) ==
    LET given == ValuesOf(av, "file")
    IN  [i \in 1..Len(given) |-> given[i].val]

\* matches.values_of_lossy("files"), default_value("-").
FilesOf(av) ==
    LET given == ValuesOf(av, "file")
    IN  IF given = <<>> THEN <<Dash>> ELSE [i \in 1..Len(given) |-> given[i].val]

\* .map(parse_positive_int).transpose().context(format!(...)): None stays
\* None, a value parses or fails with the context message on top.
ParseCount(v, what) ==
    IF ~v.some THEN [ok |-> TRUE, val |-> None, err |-> <<>>]
    ELSE LET r == parse_positive_int(v.val)
         IN  IF r.some
             THEN [ok |-> TRUE, val |-> r, err |-> <<>>]
             ELSE [ok |-> FALSE, val |-> None,
                   err |-> <<Msg(what, v.val), Msg("illegal number: ", v.val)>>]

LinesContext == "Failed to parse lines count: "
BytesContext == "Failed to parse bytes count: "

\* get_args(): clap's validation, then lines, then bytes, then the Config.
ResolveArgs(av) ==
    LET lines == ParseCount(ValueOf(av, "lines", Some(DefaultLinesText)), LinesContext)
        bytes == ParseCount(ValueOf(av, "bytes", None), BytesContext)
    IN  IF Conflicts(av) THEN [ok |-> FALSE, clap |-> TRUE, err |-> ConflictError]
        ELSE IF ~lines.ok THEN [ok |-> FALSE, clap |-> FALSE, err |-> lines.err]
        ELSE IF ~bytes.ok THEN [ok |-> FALSE, clap |-> FALSE, err |-> bytes.err]
        ELSE [ok |-> TRUE, clap |-> FALSE, err |-> <<>>,
              config |-> [files |-> FilesOf(av),
                          lines |-> IF lines.val.some THEN lines.val.val ELSE DefaultLines,
                          bytes |-> bytes.val]]

\* ------------------------------------------------------------ environment

\* What a path names: nothing (File::open fails), a directory (File::open
\* succeeds, every read fails) or a regular file with its bytes.  The file
\* `a` is any of these, the file `b` holds two lines, the last unterminated.
\* Runs over the longer file lists take `a` from a sample: missing, a
\* directory, one line, and an empty line followed by a malformed one.
Missing == [kind |-> "missing", data |-> <<>>]
Directory == [kind |-> "dir", data |-> <<>>]
Regular(bs) == [kind |-> "file", data |-> bs]

ByteAlphabet == {NL, 97, 195, 169}
Contents == UNION {[1..n -> ByteAlphabet] : n \in 0..MaxLen}
ObjectsA == {Missing, Directory} \cup {Regular(c) : c \in Contents}
SampleObjectsA == {Missing, Directory, Regular(<<97, NL>>), Regular(<<NL, 195>>)}
ObjectB == Regular(<<98, NL, 98>>)
StdinInputs == {<<>>, <<97, NL, 195, 169>>}

\* ------------------------------------------------------------------ state

VARIABLES
    argv,       \* the command line
    fs,         \* the file system: what each file name names
    stdin,      \* the bytes of standard input the process has not fetched yet
    pc,         \* "get_args", "open" (top of run's for loop), "read", "exit"
    config,     \* the Config get_args returned
    file_num,   \* run: the loop index over config.files
    file,       \* run: the reader open() returned for the current file
    lines_read, \* run: iterations done of `for _ in 0..config.lines`
    stdout,     \* bytes written to standard output
    stderr,     \* lines written to standard error
    exit_code,  \* the process's exit status, None while it runs
    opens       \* the open() calls made so far, in order

vars == <<argv, fs, stdin, pc, config, file_num, file, lines_read, stdout,
          stderr, exit_code, opens>>

NoConfig == [files |-> <<>>, lines |-> 0, bytes |-> None]
NoReader == [kind |-> "none", input |-> <<>>, pos |-> 0, fetched |-> 0, reads |-> 0]

\* A reader: the bytes its source held when it was opened, how many of them
\* the program has consumed, how many its BufReader has fetched from the
\* source (standard input only: a file is read from its own offset), and
\* the number of read calls made on it.
Reader(kind, input) == [kind |-> kind, input |-> input, pos |-> 0, fetched |-> 0, reads |-> 0]

CountText(k) == <<48 + k>>
FileArgs(names) == [i \in 1..Len(names) |-> Opt("file", names[i])]
FileLists == UNION {[1..n -> FileNames \cup {Dash}] : n \in 0..MaxFiles}
ShortLists == {<<>>, <<Dash>>, <<NameA>>, <<NameA, NameB>>, <<NameB, NameA>>}
RunOptions ==
    {<<>>} \cup {<<Opt("lines", CountText(k))>> : k \in 1..MaxCount}
           \cup {<<Opt("bytes", CountText(k))>> : k \in 1..MaxCount}

OptionValues == UNION {[1..n -> {43, 45, 48, 49, 120}] : n \in 0..MaxValLen}
\* "1", "0" and "x": a count, and two values that are none.
SampleValues == {<<49>>, <<48>>, <<120>>}
\* One option with any value, or both options in either order, one of them
\* with any value and the other with a sample value.
AnyOptions ==
    {<<Opt(o, v)>> : o \in {"lines", "bytes"}, v \in OptionValues}
    \cup {<<Opt("lines", v), Opt("bytes", w)>> : v \in OptionValues, w \in SampleValues}
    \cup {<<Opt("lines", w), Opt("bytes", v)>> : v \in OptionValues, w \in SampleValues}
    \cup {<<Opt("bytes", v), Opt("lines", w)>> : v \in OptionValues, w \in SampleValues}
    \cup {<<Opt("bytes", w), Opt("lines", v)>> : v \in OptionValues, w \in SampleValues}

Start ==
    /\ pc = "get_args"
    /\ config = NoConfig
    /\ file_num = 0
    /\ file = NoReader
    /\ lines_read = 0
    /\ stdout = <<>>
    /\ stderr = <<>>
    /\ exit_code = None
    /\ opens = <<>>

\* Command lines with valid counts and a short file list, over every
\* content of the file `a`.
ContentInit ==
    /\ \E o \in RunOptions, names \in ShortLists : argv = o \o FileArgs(names)
    /\ \E a \in ObjectsA : fs = (NameA :> a) @@ (NameB :> ObjectB)
    /\ stdin \in StdinInputs

\* Command lines with valid counts and every file list, over the sample of
\* the file `a`.
ListInit ==
    /\ \E o \in RunOptions, names \in FileLists : argv = o \o FileArgs(names)
    /\ \E a \in SampleObjectsA : fs = (NameA :> a) @@ (NameB :> ObjectB)
    /\ stdin \in StdinInputs

\* Command lines with any option values, over one file system.
ArgsInit ==
    /\ \E o \in AnyOptions, names \in {<<>>, <<NameA>>} : argv = o \o FileArgs(names)
    /\ fs = (NameA :> Regular(<<97, NL>>)) @@ (NameB :> ObjectB)
    /\ stdin = <<>>

Init == Start /\ (ContentInit \/ ListInit \/ ArgsInit)

\* ---------------------------------------------------------------- actions

\* main: `if let Err(e) = ... { eprintln!("{}", e); exit(1) }`.  clap's own
\* errors leave the same way: the message on standard error, status 1.
Fail(e) ==
    /\ stderr' = Append(stderr, ErrLine(<<>>, e))
    /\ exit_code' = Some(1)
    /\ pc' = "exit"

get_args ==
    /\ pc = "get_args"
    /\ LET r == ResolveArgs(argv)
       IN  IF r.ok
           THEN /\ config' = r.config
                /\ pc' = "open"
                /\ UNCHANGED <<stderr, exit_code>>
           ELSE /\ Fail(r.err)
                /\ UNCHANGED config
    /\ UNCHANGED <<argv, fs, stdin, file_num, file, lines_read, stdout, opens>>

\* open(filename): "-" is standard input, anything else File::open with the
\* context "Failed to open file: {filename}".
OpenError(filename) ==
    <<Msg("Failed to open file: ", filename), Msg("No such file or directory (os error 2)", <<>>)>>

open(filename) ==
    IF filename = Dash THEN [ok |-> TRUE, reader |-> Reader("stdin", stdin)]
    ELSE IF fs[filename].kind = "missing" THEN [ok |-> FALSE, reader |-> NoReader]
    ELSE [ok |-> TRUE, reader |-> Reader(fs[filename].kind, fs[filename].data)]

\* println!("{}==> {} <==", if file_num > 0 { "\n" } else { "" }, filename)
Separator(num) == IF num > 0 THEN <<NL>> ELSE <<>>

HeaderLine(filename) == <<61, 61, 62, 32>> \o filename \o <<32, 60, 61, 61>> \o <<NL>>

\* A variant that prints the header for a single file too.
HeaderAlways(num_files, num, filename) ==
    IF num_files > 0 THEN Separator(num) \o HeaderLine(filename) ELSE <<>>

Header(num_files, num, filename) ==
    IF num_files > 1 THEN Separator(num) \o HeaderLine(filename) ELSE <<>>

\* A variant that walks the list from its end.
FileAtReversed(num) ==
    config.files[Len(config.files) - num]

\* config.files.iter().enumerate(): the file name at loop index num.
FileAt(num) == config.files[num + 1]

\* A variant that returns the error of open() with `?`.
OpenFailsFatal(filename) ==
    /\ Fail(OpenError(filename))
    /\ file_num' = file_num
    /\ UNCHANGED <<stdout, file, lines_read>>

\* Err(e) => eprintln!("{}: {}", filename, e): the loop goes on.
OpenFails(filename) ==
    /\ stderr' = Append(stderr, ErrLine(filename, OpenError(filename)))
    /\ file_num' = file_num + 1
    /\ UNCHANGED <<stdout, file, lines_read, pc, exit_code>>

\* The top of the for loop: the next file name, open(), and either the
\* error line or the header.
OpenFile ==
    /\ pc = "open"
    /\ file_num < Len(config.files)
    /\ LET filename == FileAt(file_num)
           r == open(filename)
           head == Header(Len(config.files), file_num, filename)
       IN  /\ opens' = Append(opens, [name |-> filename, ok |-> r.ok,
                                      input |-> r.reader.input,
                                      out_at |-> Len(stdout),
                                      body_at |-> Len(stdout) + (IF r.ok THEN Len(head) ELSE 0),
                                      err_at |-> Len(stderr)])
           /\ IF r.ok
              THEN /\ file' = r.reader
                   /\ stdout' = stdout \o head
                   /\ lines_read' = 0
                   /\ pc' = "read"
                   /\ UNCHANGED <<stderr, file_num, exit_code>>
              ELSE OpenFails(filename)
    /\ UNCHANGED <<argv, fs, stdin, config>>

\* The end of an iteration: the reader is dropped (with whatever it had
\* fetched and not consumed) and the loop moves to the next file.
NextFile ==
    /\ file' = NoReader
    /\ file_num' = file_num + 1
    /\ pc' = "open"
    /\ UNCHANGED <<stderr, exit_code>>

IsADirectory == <<Msg("Is a directory (os error 21)", <<>>)>>
InvalidUtf8 == <<Msg("stream did not contain valid UTF-8", <<>>)>>

\* A variant that reports a read error and goes on with the next file.
ReadFailsSkips(e) ==
    /\ stderr' = Append(stderr, ErrLine(<<>>, e))
    /\ file' = NoReader
    /\ file_num' = file_num + 1
    /\ pc' = "open"
    /\ UNCHANGED <<exit_code, stdout, stdin, lines_read>>

\* A read error: `?` returns it from run, main prints it and exits.
ReadFails(e) ==
    /\ Fail(e)
    /\ file' = [file EXCEPT !.reads = @ + 1]
    /\ UNCHANGED <<file_num, stdout, stdin, lines_read>>

\* handle.read(&mut buffer) on file.take(num_bytes): ONE read call.  On a
\* regular file it returns min(num_bytes, size) bytes.  On standard input the
\* BufReader fetches whatever chunk is there, k >= 1 bytes unless the input
\* is at its end, and the call returns at most that chunk.
ReadCounts(num_bytes) ==
    IF file.kind = "stdin" /\ file.input # <<>>
    THEN {[fetched |-> k, n |-> Min(num_bytes, k)] : k \in 1..Len(file.input)}
    ELSE {[fetched |-> Len(file.input), n |-> Min(num_bytes, Len(file.input))]}

\* A variant that prints the whole buffer, not buffer[..bytes_read].
BytesOutputWhole(buffer, bytes_read) ==
    FromUtf8Lossy(buffer)

\* print!("{}", String::from_utf8_lossy(&buffer[..bytes_read]))
BytesOutput(buffer, bytes_read) == FromUtf8Lossy(Take(buffer, bytes_read))

ReadBytes ==
    /\ pc = "read"
    /\ config.bytes.some
    /\ IF file.kind = "dir"
       THEN ReadFails(IsADirectory)
       ELSE \E r \in ReadCounts(config.bytes.val) :
               /\ stdout' = stdout \o BytesOutput(file.input, r.n)
               /\ stdin' = IF file.kind = "stdin" THEN Drop(file.input, r.fetched) ELSE stdin
               /\ NextFile
               /\ UNCHANGED lines_read
    /\ UNCHANGED <<argv, fs, config, opens>>

\* How far the BufReader over standard input has fetched after a read_line
\* that consumed up to `end`: no further when the line was buffered already,
\* else up to any point from the line's end on.
FetchedAfter(end) ==
    IF file.kind # "stdin" THEN {file.fetched}
    ELSE IF end <= file.fetched THEN {file.fetched}
    ELSE end..Len(file.input)

\* One iteration of `for _ in 0..config.lines`: read_line (an error when the
\* line is not valid UTF-8), break at the end of the input, print the line;
\* the loop ends after config.lines lines.
ReadLine ==
    /\ pc = "read"
    /\ ~config.bytes.some
    /\ lines_read < config.lines
    /\ LET line == ReadUntilNewline(Drop(file.input, file.pos))
           end == file.pos + Len(line)
       IN  IF file.kind = "dir" THEN ReadFails(IsADirectory)
           ELSE IF ~IsUtf8(line) THEN ReadFails(InvalidUtf8)
           ELSE \E f \in FetchedAfter(end) :
                /\ stdin' = IF file.kind = "stdin" THEN Drop(file.input, f) ELSE stdin
                /\ IF line = <<>>
                   THEN /\ NextFile
                        /\ UNCHANGED <<stdout, lines_read>>
                   ELSE /\ stdout' = stdout \o line
                        /\ lines_read' = lines_read + 1
                        /\ IF lines_read + 1 = config.lines
                           THEN NextFile
                           ELSE /\ file' = [file EXCEPT !.pos = end, !.fetched = f,
                                                        !.reads = @ + 1]
                                /\ UNCHANGED <<file_num, pc, stderr, exit_code>>
    /\ UNCHANGED <<argv, fs, config, opens>>

\* run returns Ok(()) and main ends: exit status 0.
Finish ==
    /\ pc = "open"
    /\ file_num = Len(config.files)
    /\ pc' = "exit"
    /\ exit_code' = Some(0)
    /\ UNCHANGED <<argv, fs, stdin, config, file_num, file, lines_read, stdout,
                   stderr, opens>>

\* run(config): the for loop over config.files, then Ok(()).
run == OpenFile \/ ReadBytes \/ ReadLine \/ Finish

\* main: header::get_args().and_then(header::run)
Next == get_args \/ run

Spec == Init /\ [][Next]_vars

\* ------------------------------------------------------------ observation

\* get_args has returned a Config.
Resolved == config # NoConfig
LineMode == Resolved /\ ~config.bytes.some
ByteMode == Resolved /\ config.bytes.some
MultiFile == Len(config.files) > 1

\* The i-th open() call has been dealt with and the loop has moved on.
Completed(i) == i \in 1..Len(opens) /\ i <= file_num

\* The part of standard output written while the i-th file was the current
\* one, split where its content starts.
SegmentEnd(i) == IF i < Len(opens) THEN opens[i + 1].out_at ELSE Len(stdout)
Segment(i) == SubSeq(stdout, opens[i].out_at + 1, SegmentEnd(i))
Preamble(i) == SubSeq(stdout, opens[i].out_at + 1, opens[i].body_at)
Body(i) == SubSeq(stdout, opens[i].body_at + 1, SegmentEnd(i))
\* The lines of standard error written while the i-th file was the current one.
ErrorsEnd(i) == IF i < Len(opens) THEN opens[i + 1].err_at ELSE Len(stderr)
Errors(i) == SubSeq(stderr, opens[i].err_at + 1, ErrorsEnd(i))

\* The number of lines of a text: its terminators, and one more for a last
\* line without terminator.
CountNewlines(bs) == Cardinality({p \in 1..Len(bs) : bs[p] = NL})
CountLines(bs) ==
    CountNewlines(bs) + (IF bs # <<>> /\ bs[Len(bs)] # NL THEN 1 ELSE 0)

\* The first n lines of a text: the text up to its n-th terminator, all of
\* it when it has fewer.
FirstLines(bs, n) ==
    LET ends == {p \in 1..Len(bs) : bs[p] = NL /\ CountNewlines(Take(bs, p)) = n}
    IN  IF ends = {} THEN bs ELSE Take(bs, CHOOSE p \in ends : TRUE)

RECURSIVE Flatten(_)
Flatten(ss) == IF ss = <<>> THEN <<>> ELSE Head(ss) \o Flatten(Tail(ss))

\* The byte at p is no part of a well-formed sequence: neither ASCII, nor a
\* lead byte with its continuation, nor the continuation of a lead byte.
Malformed(bs, p) ==
    /\ bs[p] >= 128
    /\ ~(bs[p] \in 194..223 /\ p < Len(bs) /\ bs[p + 1] \in 128..191)
    /\ ~(bs[p] \in 128..191 /\ p > 1 /\ bs[p - 1] \in 194..223)

\* A text with every malformed byte replaced by U+FFFD.
Decoded(bs) ==
    Flatten([p \in 1..Len(bs) |-> IF Malformed(bs, p) THEN <<239, 191, 189>> ELSE <<bs[p]>>])

WellFormed(bs) == \A p \in 1..Len(bs) : ~Malformed(bs, p)

\* ------------------------------------------------------------------ claims

\* C1: in line mode, for every input that was read to the end of its turn
\* without a read error, what run() wrote for it is exactly its first
\* min(N, M) lines, terminators unchanged and a last unterminated line as it
\* is: the whole input when it has fewer than N lines.  The budget N is per
\* file: it holds for every file of the list.
C1_LineModeFirstLines ==
    LineMode =>
        \A i \in 1..Len(opens) :
            (Completed(i) /\ opens[i].ok) =>
                /\ Body(i) = FirstLines(opens[i].input, config.lines)
                /\ CountLines(Body(i)) = Min(config.lines, CountLines(opens[i].input))
                /\ (CountLines(opens[i].input) < config.lines => Body(i) = opens[i].input)

\* C1's case: a run that ended normally in which one file was cut at N lines
\* and another, shorter one was written whole.
C1_Witness ==
    /\ LineMode
    /\ exit_code = Some(0)
    /\ \E i, j \in 1..Len(opens) :
        /\ opens[i].ok /\ opens[j].ok
        /\ CountLines(opens[i].input) > config.lines
        /\ Body(i) # opens[i].input
        /\ i < j
        /\ opens[j].input # <<>>
        /\ Body(j) = opens[j].input

\* The sizes one read call on the i-th input can return: min(B, S) on a
\* file; on standard input at least one byte, at most min(B, S), none only
\* at the end of the input.
ReadSizes(i) ==
    LET most == Min(config.bytes.val, Len(opens[i].input))
    IN  IF opens[i].name = Dash /\ most > 0 THEN 1..most ELSE {most}

HeaderText(name) == <<61, 61, 62, 32>> \o name \o <<32, 60, 61, 61, 10>>
PreambleAsExpected(i) ==
    Preamble(i) = IF MultiFile
                  THEN (IF i > 1 THEN <<NL>> ELSE <<>>) \o HeaderText(opens[i].name)
                  ELSE <<>>
BodyAsExpected(i) ==
    IF ByteMode
    THEN \E n \in ReadSizes(i) : Body(i) = Decoded(Take(opens[i].input, n))
    ELSE Body(i) = FirstLines(opens[i].input, config.lines)

OpenErrorLine(name) == [prefix |-> name, msg |-> "Failed to open file: ", arg |-> name]
\* Standard error holds nothing but the lines of files that did not open.
OnlyOpenErrors == \A k \in 1..Len(stderr) : stderr[k] = OpenErrorLine(stderr[k].prefix)

\* C3: a file that cannot be opened, at any position of the list, gets
\* exactly one line "<name>: Failed to open file: <name>" on standard error
\* and nothing on standard output, and the loop moves on at once; every file
\* that opens gets the output it gets by its own position, name and content;
\* and a run in which nothing but opens failed handles every file of the
\* list and exits with status 0, also when every file failed to open.
C3_ErrorIsolation ==
    Resolved =>
        /\ \A i \in 1..Len(opens) :
            /\ ~opens[i].ok =>
                /\ Errors(i) = <<OpenErrorLine(opens[i].name)>>
                /\ Segment(i) = <<>>
                /\ Completed(i)
            /\ (opens[i].ok /\ Completed(i)) =>
                /\ PreambleAsExpected(i)
                /\ BodyAsExpected(i)
                /\ Errors(i) = <<>>
        /\ (pc = "exit" /\ OnlyOpenErrors) =>
            /\ exit_code = Some(0)
            /\ Len(opens) = Len(config.files)

\* C3's case: a run that ended with status 0 in which the file in the
\* middle of three did not open and the file after it was written.
C3_Witness ==
    /\ pc = "exit"
    /\ exit_code = Some(0)
    /\ Len(opens) = 3
    /\ opens[1].ok /\ ~opens[2].ok /\ opens[3].ok
    /\ Len(stderr) = 1
    /\ Body(3) # <<>>

MutualExclusionLine ==
    [prefix |-> <<>>,
     msg |-> "The argument '--lines <LINES>' cannot be used with '--bytes <BYTES>'",
     arg |-> <<>>]
Given(name) == \E k \in 1..Len(argv) : argv[k].opt = name
GivenValue(name) == argv[CHOOSE k \in 1..Len(argv) : argv[k].opt = name].val

\* C4: with both -n and -c on the command line, whatever their values and
\* order, get_args fails with the mutual-exclusion error: nothing else is on
\* standard error, the exit status is 1, no file was opened and standard
\* output is empty.  With -c alone the mutual-exclusion error never appears.
C4_MutualExclusion ==
    pc # "get_args" =>
        /\ (Given("lines") /\ Given("bytes")) =>
            /\ pc = "exit"
            /\ exit_code = Some(1)
            /\ stderr = <<MutualExclusionLine>>
            /\ stdout = <<>>
            /\ opens = <<>>
            /\ ~Resolved
        /\ (Given("bytes") /\ ~Given("lines")) =>
            \A k \in 1..Len(stderr) : stderr[k] # MutualExclusionLine

\* C4's case: -c before -n, both with values that are no counts.
C4_Witness ==
    /\ pc = "exit"
    /\ Len(argv) >= 2
    /\ argv[1].opt = "bytes" /\ argv[1].val = <<48>>
    /\ argv[2].opt = "lines" /\ argv[2].val = <<120>>
    /\ stderr = <<MutualExclusionLine>>

\* A decimal numeral of an integer greater than 0: an optional "+", then
\* digits, not all of them 0.
IsPositiveNumeral(s) ==
    LET ds == IF s # <<>> /\ s[1] = 43 THEN Drop(s, 1) ELSE s
    IN  /\ ds # <<>>
        /\ \A k \in 1..Len(ds) : ds[k] \in 48..57
        /\ \E k \in 1..Len(ds) : ds[k] # 48

RECURSIVE NumeralValue(_, _)
NumeralValue(s, k) ==
    IF k > Len(s) THEN 0
    ELSE IF s[k] = 43 THEN NumeralValue(s, k + 1)
    ELSE (s[k] - 48) * (10 ^ (Len(s) - k)) + NumeralValue(s, k + 1)

ParseErrorLine(name, s) ==
    [prefix |-> <<>>,
     msg |-> IF name = "lines" THEN "Failed to parse lines count: "
                               ELSE "Failed to parse bytes count: ",
     arg |-> s]

\* C5: when one of -n and -c is given, its value is accepted if and only if
\* it is the numeral of an integer greater than 0.  A value that is zero,
\* negative or no number makes get_args fail: standard error holds the one
\* line "Failed to parse <lines|bytes> count: <value>", the exit status is 1,
\* no file was opened and standard output is empty.  An accepted value is the
\* count of the Config.
C5_CountValidation ==
    \A name \in {"lines", "bytes"} :
        (pc # "get_args" /\ Given(name) /\ ~(Given("lines") /\ Given("bytes"))) =>
            IF IsPositiveNumeral(GivenValue(name))
            THEN /\ Resolved
                 /\ name = "lines" => config.lines = NumeralValue(GivenValue(name), 1)
                 /\ name = "bytes" => config.bytes = Some(NumeralValue(GivenValue(name), 1))
            ELSE /\ ~Resolved
                 /\ pc = "exit"
                 /\ exit_code = Some(1)
                 /\ stderr = <<ParseErrorLine(name, GivenValue(name))>>
                 /\ stdout = <<>>
                 /\ opens = <<>>

\* C5's case: -c -1 with a file name: the run ends in get_args.
C5_Witness ==
    /\ pc = "exit"
    /\ Given("bytes") /\ ~Given("lines") /\ Given("file")
    /\ GivenValue("bytes") = <<45, 49>>
    /\ stderr = <<ParseErrorLine("bytes", <<45, 49>>)>>
    /\ exit_code = Some(1)

\* C6: in a run with more than one file name, what precedes the content of
\* every file that opened is one header line "==> <name> <==" with the
\* file's own name, after at most the blank line, also when the content is
\* empty; in a run with one file name (the default "-" too) nothing precedes
\* the content, and standard output is that content alone.
C6_HeaderRule ==
    Resolved =>
        \A i \in 1..Len(opens) :
            opens[i].ok =>
                IF MultiFile
                THEN Preamble(i) \in {HeaderText(opens[i].name),
                                      <<NL>> \o HeaderText(opens[i].name)}
                ELSE /\ Preamble(i) = <<>>
                     /\ stdout = Body(i)
                     /\ Completed(i) => BodyAsExpected(i)

\* C6's case: a run of several files that ended, in which a file with empty
\* content has its header and nothing else.
C6_Witness ==
    /\ pc = "exit"
    /\ MultiFile
    /\ \E i \in 1..Len(opens) :
        /\ opens[i].ok
        /\ opens[i].name = NameA
        /\ opens[i].input = <<>>
        /\ Segment(i) = <<NL>> \o HeaderText(NameA)

\* C7 as stated: in a run of several files standard output never begins
\* with a blank line: the first header written has no newline before it and
\* every later header has exactly one, whichever files open.
C7_NoLeadingBlankLine ==
    (Resolved /\ MultiFile) =>
        /\ stdout # <<>> => stdout[1] # NL
        /\ \A i \in 1..Len(opens) :
            opens[i].ok =>
                Preamble(i) = (IF \E k \in 1..(i - 1) : opens[k].ok THEN <<NL>> ELSE <<>>)
                              \o HeaderText(opens[i].name)

\* C8: the files are handled in the order of the command line, one open()
\* per occurrence; the output of a file is complete before the next file is
\* opened, so that standard output is, at every moment, the per-file outputs
\* in the order of the list; a run that ends normally has handled every
\* file.
C8_Ordering ==
    Resolved =>
        /\ Len(opens) <= Len(config.files)
        /\ Len(opens) \in {file_num, file_num + 1}
        /\ pc = "read" => (file # NoReader /\ Len(opens) = file_num + 1)
        /\ pc = "open" => (file = NoReader /\ Len(opens) = file_num)
        /\ \A i \in 1..Len(opens) :
            /\ opens[i].name = config.files[i]
            /\ opens[i].out_at = (IF i = 1 THEN 0 ELSE SegmentEnd(i - 1))
            /\ opens[i].out_at <= opens[i].body_at
            /\ opens[i].body_at <= SegmentEnd(i)
            /\ i < Len(opens) => Completed(i)
            /\ Completed(i) =>
                IF opens[i].ok
                THEN PreambleAsExpected(i) /\ BodyAsExpected(i)
                ELSE Segment(i) = <<>>
        /\ exit_code = Some(0) => Len(opens) = Len(config.files)

\* C8's case: a run of three occurrences, the same file first and last,
\* written twice around the output of another one.
C8_Witness ==
    /\ exit_code = Some(0)
    /\ Len(opens) = 3
    /\ opens[1].name = NameB /\ opens[2].name = NameA /\ opens[3].name = NameB
    /\ opens[2].ok /\ Body(2) # <<>>
    /\ Body(1) = Body(3) /\ Body(1) # <<>>
    /\ stdout = Segment(1) \o Segment(2) \o Segment(3)

IsDirectoryAt(i) == opens[i].name # Dash /\ fs[opens[i].name].kind = "dir"
\* Every read run() makes on the i-th input succeeds.
Readable(i) ==
    /\ ~IsDirectoryAt(i)
    /\ LineMode => WellFormed(FirstLines(opens[i].input, config.lines))
ReadErrorLine(i) ==
    [prefix |-> <<>>,
     msg |-> IF IsDirectoryAt(i) THEN "Is a directory (os error 21)"
                                 ELSE "stream did not contain valid UTF-8",
     arg |-> <<>>]
\* The whole lines of a text before its first line that is not well-formed.
LinesBeforeError(bs) ==
    LET ok == {p \in 0..Len(bs) : (p = 0 \/ bs[p] = NL) /\ WellFormed(Take(bs, p))}
    IN  Take(bs, CHOOSE p \in ok : \A q \in ok : q <= p)

\* C9: a read error on a file that opened, in either mode, ends the run at
\* once: the error is the last line of standard error, the exit status is 1,
\* no later file is opened, and standard output keeps what was written: the
\* complete output of the earlier files, the header of the failing file and
\* the lines read before the error.  An exit status other than 0 has no
\* other cause than such a read error or an argument error.
C9_ReadErrorFatal ==
    /\ Resolved =>
        \A i \in 1..Len(opens) :
            (opens[i].ok /\ ~Readable(i) /\ pc # "read") =>
                /\ pc = "exit"
                /\ exit_code = Some(1)
                /\ i = Len(opens)
                /\ file_num = i - 1
                /\ Errors(i) = <<ReadErrorLine(i)>>
                /\ PreambleAsExpected(i)
                /\ Body(i) = LinesBeforeError(opens[i].input)
                /\ \A j \in 1..(i - 1) :
                    opens[j].ok => PreambleAsExpected(j) /\ BodyAsExpected(j)
    /\ (exit_code.some /\ exit_code # Some(0)) =>
        /\ exit_code = Some(1)
        /\ \/ ~Resolved /\ opens = <<>> /\ Len(stderr) = 1
           \/ /\ Resolved
              /\ opens # <<>>
              /\ opens[Len(opens)].ok
              /\ ~Readable(Len(opens))

\* C9's case: in line mode the second file of three fails on its second
\* line: its header and first line are written, the third file is not opened.
C9_Witness ==
    /\ exit_code = Some(1)
    /\ LineMode
    /\ Len(config.files) = 3
    /\ Len(opens) = 2
    /\ opens[1].ok /\ Body(1) # <<>>
    /\ Preamble(2) # <<>>
    /\ Body(2) = <<NL>>
    /\ stderr = <<ReadErrorLine(2)>>

FileNamesGiven ==
    LET ks == {k \in 1..Len(argv) : argv[k].opt = "file"}
    IN  [i \in 1..Cardinality(ks) |->
            argv[CHOOSE k \in ks : Cardinality({j \in ks : j <= k}) = i].val]

\* C10: every Config get_args returns has a file list that is not empty (the
\* FILE arguments in order, ["-"] when there are none), a line count >= 1 (10
\* without -n) and a byte count that is absent without -c and >= 1 with it;
\* run() is in byte mode exactly when the byte count is present: it then
\* makes one read per file and never runs the line loop, whose count is 10
\* and has no effect, and otherwise it copies lines.
C10_ConfigInvariant ==
    Resolved =>
        /\ config.files # <<>>
        /\ config.files = (IF Given("file") THEN FileNamesGiven ELSE <<<<45>>>>)
        /\ config.lines >= 1
        /\ ~Given("lines") => config.lines = 10
        /\ config.bytes.some = Given("bytes")
        /\ config.bytes.some => config.bytes.val >= 1
        /\ config.bytes.some =>
            /\ lines_read = 0
            /\ file.reads <= 1
            /\ config.lines = 10
        /\ \A i \in 1..Len(opens) :
            (opens[i].ok /\ Completed(i)) =>
                IF Given("bytes")
                THEN \E n \in ReadSizes(i) : Body(i) = Decoded(Take(opens[i].input, n))
                ELSE Body(i) = FirstLines(opens[i].input, config.lines)

\* C10's case: -c 2 and no FILE: the Config reads standard input in byte
\* mode, and two bytes of it were written.
C10_Witness ==
    /\ exit_code = Some(0)
    /\ ~Given("file") /\ Given("bytes") /\ ~Given("lines")
    /\ config = [files |-> <<Dash>>, lines |-> 10, bytes |-> Some(2)]
    /\ stdout = <<97, NL>>

====
